---- MODULE Spec2Model ----
(***************************************************************************)
(* Model of the tongues image pipeline (src/src/pipeline.js).              *)
(*                                                                         *)
(* Model output text is a sequence of tokens.  A token is one lexical      *)
(* unit of the text: a bracket, a comma, a run of whitespace, a word of    *)
(* prose, a markdown fence, the fence's language tag, or a complete JSON   *)
(* scalar/object literal.                                                  *)
(***************************************************************************)
EXTENDS Integers, Sequences, FiniteSets, TLC

VARIABLES
    \* parseJsonArray as a pure function
    ptext,      \* the rawText argument
    presult,    \* its outcome (value or thrown error)
    pdone,      \* whether the call has returned or thrown
    \* the merge of translateEntries as a pure function
    tentries,   \* params.entries
    titems,     \* rawItems, each read as a record
    tresult,    \* the list returned
    tdone,      \* whether the merge has run
    \* two invocations in one event loop
    active,     \* the invocation running now (1 or 2; 0 when there is only one)
    parked,     \* the locals of the invocation suspended at an await
    \* runCommand of the command line shell
    cliInputPath, \* its inputPath argument
    options,    \* its options argument (CliOptions)
    cliPc,      \* the statement runCommand is at
    handlerCalls, \* the handlers it has called, each with the request passed
    stdout,     \* what console.log has printed, in order
    \* one invocation of a public operation
    op,         \* "recreate" (recreateImageWithTranslatedText) or "extract"
    req,        \* the TranslateRequest
    env,        \* process.env.GEMINI_API_KEY
    fs0,        \* the file system when the operation was called
    fs,         \* the file system: path -> file
    pc,         \* the statement the invocation is at
    outputPath, \* local outputPath
    inlineImage,\* local inlineImage {data, mimeType}
    apiKey,     \* the key given to the model client
    entries,    \* local entries
    translations,\* local translations
    outputBase64,\* local outputBase64
    calls,      \* upstream generateContent calls issued, in order
    completed,  \* upstream calls that have returned or thrown, in order
    received,   \* what the invocation was given: the bytes read, each response
    err,        \* the error the invocation threw ("" while none)
    result,     \* the value the invocation returned
    trace       \* the stages the invocation has completed, in order

parseVars == <<ptext, presult, pdone>>
mergeVars == <<tentries, titems, tresult, tdone>>
pairVars == <<active, parked>>
\* What no step of the invocation at hand changes.
cliVars == <<cliInputPath, options, cliPc, handlerCalls, stdout>>
outerVars == <<parseVars, mergeVars, pairVars, cliVars>>
constVars == <<op, req, env, fs0>>
pipeVars == <<constVars, fs, pc, outputPath, inlineImage, apiKey, entries, translations,
              outputBase64, calls, completed, received, err, result, trace>>
vars == <<outerVars, pipeVars>>

(***************************************************************************)
(* Bounds.                                                                 *)
(***************************************************************************)
MaxLen == 5         \* longest model output text, in tokens
MaxEntries == 2     \* most entries given to the merge of translateEntries
MaxItems == 2       \* most raw items in a translation response given to the merge

(***************************************************************************)
(* Tokens.                                                                 *)
(***************************************************************************)
WS == " "
LB == "["
RB == "]"
COMMA == ","
FENCE == "fence"      \* three backticks
JsonTags == {"json", "JSON"}
Prose == "x"
NumberTok == "1"      \* a JSON number literal

\* Object literals the model may answer with, each one token of the text.
ExtractionObjTokens == {"e_hola", "e_blank", "e_adios", "e_num"}
TranslationObjTokens ==
    {"t0_hello", "t1_bye", "t0_null", "t0_empty", "t2_far", "ts_str", "th_half"}
ObjTokens == ExtractionObjTokens \cup TranslationObjTokens
Scalars == {NumberTok} \cup ObjTokens

Alphabet == {LB, RB, COMMA, WS, FENCE, Prose, NumberTok} \cup JsonTags

RECURSIVE SeqsUpTo(_, _)
SeqsUpTo(S, n) ==
    IF n = 0 THEN {<<>>}
    ELSE LET shorter == SeqsUpTo(S, n - 1)
         IN  shorter \cup {Append(s, x) : s \in {t \in shorter : Len(t) = n - 1}, x \in S}

(***************************************************************************)
(* JSON values: an atom (scalar or object literal, named by its token) or  *)
(* an array of values.                                                     *)
(***************************************************************************)
Atom(tok) == [t |-> "atom", a |-> tok, els |-> <<>>]
Arr(els) == [t |-> "arr", a |-> "", els |-> els]
NoVal == [t |-> "none", a |-> "", els |-> <<>>]
ParseFail == [ok |-> FALSE, val |-> NoVal, next |-> 0]

RECURSIVE SkipWs(_, _)
SkipWs(toks, i) ==
    IF i <= Len(toks) /\ toks[i] = WS THEN SkipWs(toks, i + 1) ELSE i

RECURSIVE JsonValueAt(_, _), JsonElemsAt(_, _, _)
JsonValueAt(toks, i0) ==
    LET i == SkipWs(toks, i0)
    IN  IF i > Len(toks) THEN ParseFail
        ELSE IF toks[i] \in Scalars
             THEN [ok |-> TRUE, val |-> Atom(toks[i]), next |-> i + 1]
        ELSE IF toks[i] = LB
             THEN LET j == SkipWs(toks, i + 1)
                  IN  IF j <= Len(toks) /\ toks[j] = RB
                      THEN [ok |-> TRUE, val |-> Arr(<<>>), next |-> j + 1]
                      ELSE JsonElemsAt(toks, i + 1, <<>>)
        ELSE ParseFail

JsonElemsAt(toks, i, acc) ==
    LET v == JsonValueAt(toks, i)
    IN  IF ~v.ok THEN ParseFail
        ELSE LET j == SkipWs(toks, v.next)
             IN  IF j > Len(toks) THEN ParseFail
                 ELSE IF toks[j] = COMMA
                      THEN JsonElemsAt(toks, j + 1, Append(acc, v.val))
                 ELSE IF toks[j] = RB
                      THEN [ok |-> TRUE, val |-> Arr(Append(acc, v.val)), next |-> j + 1]
                 ELSE ParseFail

\* JSON.parse: the whole text is one JSON value, or a SyntaxError is thrown.
JSONparse(toks) ==
    LET v == JsonValueAt(toks, 1)
    IN  IF v.ok /\ SkipWs(toks, v.next) > Len(toks)
        THEN [ok |-> TRUE, val |-> v.val]
        ELSE [ok |-> FALSE, val |-> NoVal]

ArrayIsArray(v) == v.t = "arr"

(***************************************************************************)
(* String helpers of parseJsonArray.                                       *)
(***************************************************************************)
RECURSIVE TrimStart(_)
TrimStart(s) == IF Len(s) > 0 /\ Head(s) = WS THEN TrimStart(Tail(s)) ELSE s

RECURSIVE TrimEnd(_)
TrimEnd(s) ==
    IF Len(s) > 0 /\ s[Len(s)] = WS THEN TrimEnd(SubSeq(s, 1, Len(s) - 1)) ELSE s

Trim(s) == TrimEnd(TrimStart(s))

\* text.replace(/^FENCEjson\s*/i, ""): an opening fence with its json tag
StripOpenFence(s) ==
    IF Len(s) >= 2 /\ s[1] = FENCE /\ s[2] \in JsonTags
    THEN TrimStart(SubSeq(s, 3, Len(s)))
    ELSE s

\* text.replace(/FENCE$/i, ""): a fence that ends the text
StripCloseFence(s) ==
    IF Len(s) >= 1 /\ s[Len(s)] = FENCE THEN SubSeq(s, 1, Len(s) - 1) ELSE s

Unfence(rawText) == Trim(StripCloseFence(StripOpenFence(Trim(rawText))))

\* indexOf / lastIndexOf, 1-based; 0 when absent (-1 in JavaScript).
IndexOf(s, c) ==
    IF \E i \in 1..Len(s) : s[i] = c
    THEN CHOOSE i \in 1..Len(s) : s[i] = c /\ \A j \in 1..(i - 1) : s[j] # c
    ELSE 0

\* Mutant: the first occurrence, as indexOf.
LastIndexOfAsFirst(s, c) == IndexOf(s, c)

LastIndexOf(s, c) ==
    IF \E i \in 1..Len(s) : s[i] = c
    THEN CHOOSE i \in 1..Len(s) : s[i] = c /\ \A j \in (i + 1)..Len(s) : s[j] # c
    ELSE 0

(***************************************************************************)
(* parseJsonArray.  The outcome is a returned array (err = "") or a thrown *)
(* error: "MalformedModelOutput" is the function's own Error, whose        *)
(* message is 'Model output did not contain a valid JSON array.';          *)
(* "SyntaxError" is what JSON.parse throws.                                *)
(***************************************************************************)
Returned(v) == [err |-> "", val |-> v]
Thrown(e) == [err |-> e, val |-> NoVal]

\* Lines 149-157: bracket extraction.  JSON.parse(slice) is not guarded.
BracketExtraction(unfenced) ==
    LET start == IndexOf(unfenced, LB)
        end == LastIndexOf(unfenced, RB)
    IN  IF start # 0 /\ end > start
        THEN LET parsed == JSONparse(SubSeq(unfenced, start, end))
             IN  IF ~parsed.ok THEN Thrown("SyntaxError")
                 ELSE IF ArrayIsArray(parsed.val) THEN Returned(parsed.val)
                 ELSE Thrown("MalformedModelOutput")
        ELSE Thrown("MalformedModelOutput")

parseJsonArray(rawText) ==
    LET unfenced == Unfence(rawText)
        parsed == JSONparse(unfenced)
    IN  IF parsed.ok /\ ArrayIsArray(parsed.val)
        THEN Returned(parsed.val)
        ELSE BracketExtraction(unfenced)

(***************************************************************************)
(* JavaScript values of object fields.  A string is a sequence of tokens   *)
(* (words and whitespace); a number is kept as twice its value, so that    *)
(* 0.5 is representable.                                                   *)
(***************************************************************************)
Undefined == [ty |-> "undefined", n2 |-> 0, s |-> <<>>]
JsStr(s) == [ty |-> "string", n2 |-> 0, s |-> s]
JsNum(n) == [ty |-> "number", n2 |-> 2 * n, s |-> <<>>]
JsHalf(n) == [ty |-> "number", n2 |-> 2 * n + 1, s |-> <<>>]

EmptyObj ==
    [text |-> Undefined, language |-> Undefined,
     index |-> Undefined, translation |-> Undefined]

\* The object each object-literal token denotes.
Obj(tok) ==
    CASE tok = "e_hola" ->
           [EmptyObj EXCEPT !.text = JsStr(<<WS, "hola", WS>>),
                            !.language = JsStr(<<"es">>)]
      [] tok = "e_blank" ->
           [EmptyObj EXCEPT !.text = JsStr(<<WS>>), !.language = JsStr(<<"ja">>)]
      [] tok = "e_adios" ->
           [EmptyObj EXCEPT !.text = JsStr(<<"adios">>), !.language = JsNum(7)]
      [] tok = "e_num" ->
           [EmptyObj EXCEPT !.text = JsNum(5)]
      [] tok = "t0_hello" ->
           [EmptyObj EXCEPT !.index = JsNum(0), !.translation = JsStr(<<"hello">>)]
      [] tok = "t1_bye" ->
           [EmptyObj EXCEPT !.index = JsNum(1), !.translation = JsStr(<<"bye">>)]
      [] tok = "t0_null" ->
           [EmptyObj EXCEPT !.index = JsNum(0)]
      [] tok = "t0_empty" ->
           [EmptyObj EXCEPT !.index = JsNum(0), !.translation = JsStr(<<>>)]
      [] tok = "t2_far" ->
           [EmptyObj EXCEPT !.index = JsNum(2), !.translation = JsStr(<<"far">>)]
      [] tok = "ts_str" ->
           [EmptyObj EXCEPT !.index = JsStr(<<"0">>),
                            !.translation = JsStr(<<"wrong">>)]
      [] tok = "th_half" ->
           [EmptyObj EXCEPT !.index = JsHalf(0), !.translation = JsStr(<<"half">>)]
      [] OTHER -> EmptyObj

\* (item ?? {}) read as a record: a value that is no object literal has no
\* text, language, index or translation.
Row(item) == IF item.t = "atom" /\ item.a \in ObjTokens THEN Obj(item.a) ELSE EmptyObj

(***************************************************************************)
(* extractTextEntries, lines 183-191: normalise and filter the raw items.  *)
(***************************************************************************)
NormalizeEntry(item) ==
    LET row == Row(item)
    IN  [text |-> IF row.text.ty = "string" THEN Trim(row.text.s) ELSE <<>>,
         language |-> IF row.language.ty = "string" THEN row.language ELSE Undefined]

RECURSIVE FilterNonEmpty(_)
FilterNonEmpty(items) ==
    IF items = <<>> THEN <<>>
    ELSE IF Len(Head(items).text) > 0
         THEN <<Head(items)>> \o FilterNonEmpty(Tail(items))
         ELSE FilterNonEmpty(Tail(items))

\* Mutant: the entries with empty text are kept.
ExtractedEntriesUnfiltered(rawItems) ==
    [i \in 1..Len(rawItems) |-> NormalizeEntry(rawItems[i])]

ExtractedEntries(rawItems) ==
    FilterNonEmpty([i \in 1..Len(rawItems) |-> NormalizeEntry(rawItems[i])])

(***************************************************************************)
(* translateEntries, lines 228-238: merge the raw items onto the entries.  *)
(* Positions are 1-based here: JavaScript index k is position k + 1.       *)
(***************************************************************************)
\* Mutant: an item without a string translation leaves the position as it is.
MergeItemKeepsValid(output, row) ==
    IF row.index.ty # "number" THEN output
    ELSE IF row.index.n2 < 0 \/ row.index.n2 >= 2 * Len(output) THEN output
    ELSE IF row.index.n2 % 2 # 0 THEN output
    ELSE IF row.translation.ty # "string" THEN output
    ELSE [output EXCEPT ![(row.index.n2 \div 2) + 1] = row.translation.s]

\* Lines 231-235: one iteration of the loop.
MergeItem(output, row) ==
    IF row.index.ty # "number" THEN output
    ELSE IF row.index.n2 < 0 \/ row.index.n2 >= 2 * Len(output) THEN output
    ELSE IF row.index.n2 % 2 # 0 THEN output    \* output[0.5] = ... sets no element
    ELSE [output EXCEPT ![(row.index.n2 \div 2) + 1] =
              IF row.translation.ty = "string" THEN row.translation.s ELSE <<>>]

RECURSIVE MergeRows(_, _)
MergeRows(output, rows) ==
    IF rows = <<>> THEN output
    ELSE MergeRows(MergeItem(output, Head(rows)), Tail(rows))

Rows(rawItems) == [i \in 1..Len(rawItems) |-> Row(rawItems[i])]

\* Mutant: no fall back to the source text.
FallBackNone(value, entry) == value

\* Line 238: value || params.entries[index].text
FallBack(value, entry) == IF value # <<>> THEN value ELSE entry.text

MergeTranslations(ents, rows) ==
    LET output == MergeRows([i \in 1..Len(ents) |-> <<>>], rows)
    IN  [i \in 1..Len(ents) |-> FallBack(output[i], ents[i])]

(***************************************************************************)
(* Specification of the merge as a pure function: every entries list of at *)
(* most MaxEntries entries and every response array of at most MaxItems    *)
(* items is an input, and one step applies the merge.                      *)
(***************************************************************************)
SourceTexts == <<"uno", "dos", "tres", "cuatro", "cinco">>
EntriesOfLen(n) == [i \in 1..n |-> [text |-> <<SourceTexts[i]>>, language |-> Undefined]]

IndexValues ==
    {JsNum(k) : k \in (-1)..MaxEntries} \cup {JsHalf(0), JsStr(<<"0">>), Undefined}
TranslationValues == {JsStr(<<"hello">>), JsStr(<<"bye">>), JsStr(<<>>), Undefined}
TranslationRows ==
    {[EmptyObj EXCEPT !.index = ix, !.translation = tr] :
        ix \in IndexValues, tr \in TranslationValues}

(***************************************************************************)
(* Bytes and base64.  A byte is 0..255; a base64 string is a sequence of   *)
(* sextets 0..63, with Pad for "=".                                        *)
(***************************************************************************)
Pad == 64

\* Mutant: only whole groups of three bytes are encoded.
RECURSIVE Base64EncodeWholeGroups(_)
Base64EncodeWholeGroups(b) ==
    IF Len(b) < 3 THEN <<>>
    ELSE <<b[1] \div 4, (b[1] % 4) * 16 + (b[2] \div 16),
           (b[2] % 16) * 4 + (b[3] \div 64), b[3] % 64>>
         \o Base64EncodeWholeGroups(SubSeq(b, 4, Len(b)))

RECURSIVE Base64Encode(_)
Base64Encode(b) ==
    IF Len(b) = 0 THEN <<>>
    ELSE IF Len(b) = 1
         THEN <<b[1] \div 4, (b[1] % 4) * 16, Pad, Pad>>
    ELSE IF Len(b) = 2
         THEN <<b[1] \div 4, (b[1] % 4) * 16 + (b[2] \div 16), (b[2] % 16) * 4, Pad>>
    ELSE <<b[1] \div 4, (b[1] % 4) * 16 + (b[2] \div 16),
           (b[2] % 16) * 4 + (b[3] \div 64), b[3] % 64>>
         \o Base64Encode(SubSeq(b, 4, Len(b)))

\* Buffer.from(s, "base64"): decoding stops at the first "="; a trailing
\* group of two or three sextets yields one or two bytes.
BeforePad(s) ==
    LET i == IndexOf(s, Pad) IN IF i = 0 THEN s ELSE SubSeq(s, 1, i - 1)

RECURSIVE DecodeSextets(_)
DecodeSextets(s) ==
    IF Len(s) <= 1 THEN <<>>
    ELSE IF Len(s) = 2
         THEN <<s[1] * 4 + (s[2] \div 16)>>
    ELSE IF Len(s) = 3
         THEN <<s[1] * 4 + (s[2] \div 16), (s[2] % 16) * 16 + (s[3] \div 4)>>
    ELSE <<s[1] * 4 + (s[2] \div 16), (s[2] % 16) * 16 + (s[3] \div 4),
           (s[3] % 4) * 64 + s[4]>>
         \o DecodeSextets(SubSeq(s, 5, Len(s)))

Base64Decode(s) == DecodeSextets(BeforePad(s))

(***************************************************************************)
(* Paths and files.  A path is a base name (a sequence of name tokens) and *)
(* an extension as path.extname gives it ("" for none).                    *)
(***************************************************************************)
Path(base, ext) == [base |-> base, ext |-> ext]
NoPath == Path(<<>>, "")

SUPPORTED_EXTENSIONS == {".png", ".jpg", ".jpeg", ".webp", ".heic"}

ToLowerCase(ext) ==
    CASE ext = ".PNG" -> ".png"
      [] ext = ".JPEG" -> ".jpeg"
      [] OTHER -> ext

\* inferMimeType: the mime type, or "" when the extension is unsupported
\* (the function then throws).
inferMimeType(filePath) ==
    LET extension == ToLowerCase(filePath.ext)
    IN  IF extension \notin SUPPORTED_EXTENSIONS THEN ""
        ELSE IF extension = ".png" THEN "image/png"
        ELSE IF extension = ".jpg" \/ extension = ".jpeg" THEN "image/jpeg"
        ELSE IF extension = ".webp" THEN "image/webp"
        ELSE "image/heic"

defaultOutputPath(inputPath) ==
    Path(Append(inputPath.base, "_translated"), inputPath.ext)

\* request.outputPath ?? defaultOutputPath(request.inputPath)
EffectiveOutputPath(r) ==
    IF r.outputPath = NoPath THEN defaultOutputPath(r.inputPath) ELSE r.outputPath

InputExts == {".png", ".JPEG", ".gif", ""}
InputPaths == {Path(<<"menu">>, e) : e \in InputExts}
ExplicitOutputs == {Path(<<"out">>, ".png"), Path(<<"already exists">>, ".png")}
AllPaths == InputPaths \cup {defaultOutputPath(q) : q \in InputPaths} \cup ExplicitOutputs

Missing == [kind |-> "missing", bytes |-> <<>>]
File(bytes) == [kind |-> "file", bytes |-> bytes]
Unreadable == [kind |-> "unreadable", bytes |-> <<>>]     \* exists, cannot be read

InputBytes == {<<>>, <<77>>, <<77, 97>>, <<77, 97, 110>>, <<255, 0, 16, 1>>}
OldOutput == File(<<9, 9>>)     \* what an existing output file holds

\* The message of the error stat throws for a missing file names the path.
StatErrorMessageIncludesAlreadyExists(path) ==
    \E i \in 1..Len(path.base) : path.base[i] = "already exists"

(***************************************************************************)
(* What the model service may answer.                                      *)
(***************************************************************************)
NoText == <<>>      \* response.text undefined: (response.text ?? "")

ExtractionTexts ==
    { <<LB, RB>>,
      <<LB, "e_hola", RB>>,
      <<FENCE, "json", WS, LB, "e_blank", COMMA, "e_hola", COMMA, "e_adios", RB, WS, FENCE>>,
      <<LB, "e_blank", COMMA, "e_num", COMMA, NumberTok, RB>>,
      <<Prose>>,
      <<Prose, LB, Prose, RB>>,
      NoText }

TranslationTexts ==
    { <<LB, "t0_hello", RB>>,
      <<LB, "t1_bye", COMMA, "t0_hello", RB>>,
      <<LB, "t0_hello", COMMA, "t0_null", RB>>,
      <<LB, "t2_far", COMMA, "ts_str", COMMA, "th_half", COMMA, NumberTok, RB>>,
      <<LB, RB>>,
      <<Prose, WS, LB, "t0_empty", COMMA, "t1_bye", RB>>,
      <<Prose>>,
      <<Prose, LB, Prose, RB>> }

\* A part of a render response: part.inlineData?.data, "" when absent.
TextPart == [data |-> <<>>]
ImagePart(bytes) == [data |-> Base64Encode(bytes)]
RenderedA == <<1, 2, 3, 4>>
RenderedB == <<200>>

\* response.candidates?.[0]?.content?.parts ?? []
RenderParts ==
    { <<>>,
      <<TextPart>>,
      <<TextPart, ImagePart(RenderedA)>>,
      <<ImagePart(<<>>), ImagePart(RenderedB), ImagePart(RenderedA)>> }

\* The answers offered when two invocations are in flight.
PairExtractionTexts == { <<LB, RB>>, <<LB, "e_hola", RB>> }
PairTranslationTexts == { <<LB, "t0_hello", RB>> }
PairRenderParts ==
    { <<TextPart, ImagePart(RenderedA)>>,
      <<ImagePart(<<>>), ImagePart(RenderedB), ImagePart(RenderedA)>> }

(***************************************************************************)
(* The statements of the two public operations, in program order.          *)
(***************************************************************************)
\* Mutant: the credential is resolved before the image is read.
ExtractOrderKeyFirst ==
    <<"ensureFileExists", "resolveApiKey", "readInlineImage",
      "extractTextEntries", "translateEntries", "return">>

\* Mutant: the output guard runs only right before the write.
RecreateOrderLateGuard ==
    <<"ensureFileExists", "readInlineImage", "resolveApiKey", "extractTextEntries",
      "translateEntries", "renderImage", "ensureOutputWritable", "writeFile", "return">>

\* recreateImageWithTranslatedText, lines 300-334
RecreateOrder ==
    <<"ensureFileExists", "ensureOutputWritable", "readInlineImage", "resolveApiKey",
      "extractTextEntries", "translateEntries", "renderImage", "writeFile", "return">>

\* extractAndTranslateText, lines 343-365
ExtractOrder ==
    <<"ensureFileExists", "readInlineImage", "resolveApiKey",
      "extractTextEntries", "translateEntries", "return">>

ProgramOrder(o) == IF o = "recreate" THEN RecreateOrder ELSE ExtractOrder

\* The statement that follows statement p of operation o.
Successor(o, p) ==
    LET order == ProgramOrder(o)
        i == CHOOSE k \in 1..Len(order) : order[k] = p
    IN  order[i + 1]

Throw(e) ==
    /\ err' = e
    /\ pc' = "failed"

Stage(name) == trace' = Append(trace, name)

(***************************************************************************)
(* Init: the request, the environment and the file system of one call.     *)
(***************************************************************************)
NothingReceived == [input |-> <<>>, extract |-> <<>>, translate |-> <<>>, render |-> <<>>]

\* The locals of an invocation that has not been called.
NoRun ==
    [op |-> "none",
     req |-> [inputPath |-> NoPath, outputPath |-> NoPath, force |-> "undefined",
              apiKey |-> "undefined"],
     pc |-> "idle", outputPath |-> NoPath,
     inlineImage |-> [data |-> <<>>, mimeType |-> ""], apiKey |-> "",
     entries |-> <<>>, translations |-> <<>>, outputBase64 |-> <<>>,
     calls |-> <<>>, completed |-> <<>>, received |-> NothingReceived,
     err |-> "", result |-> [kind |-> "none", path |-> NoPath, rows |-> <<>>],
     trace |-> <<>>]

\* A single invocation has no other invocation beside it.
PairIdle == active = 0 /\ parked = NoRun

\* runCommand has not been called.
NoOptions == [extract |-> FALSE, force |-> "false", output |-> NoPath, apiKey |-> "undefined"]
CliIdle ==
    /\ cliInputPath = NoPath
    /\ options = NoOptions
    /\ cliPc = "idle"
    /\ handlerCalls = <<>>
    /\ stdout = <<>>

\* What the model service answers: with two invocations in flight the
\* answers are drawn from the few that tell the invocations apart.
Offered(all, few) == IF active = 0 THEN all ELSE few

\* The pure-function specifications are idle during an invocation.
ParseIdle == ptext = <<>> /\ presult = [err |-> "idle", val |-> NoVal] /\ pdone = TRUE
MergeIdle == tentries = <<>> /\ titems = <<>> /\ tresult = <<>> /\ tdone = TRUE

ExplicitKeys == {"undefined", "", "cli-key"}     \* request.apiKey
EnvKeys == {"undefined", "", "env-key"}          \* process.env.GEMINI_API_KEY
ForceValues == {"undefined", "false", "true"}

Init ==
    /\ ParseIdle
    /\ MergeIdle
    /\ PairIdle
    /\ CliIdle
    /\ op \in {"recreate", "extract"}
    /\ \E inPath \in InputPaths, force \in ForceValues, key \in ExplicitKeys :
       \E out \in ExplicitOutputs \cup {inPath, NoPath} :
          /\ op = "extract" => out = NoPath /\ force = "undefined"
          /\ req = [inputPath |-> inPath, outputPath |-> out, force |-> force,
                    apiKey |-> key]
    /\ env \in EnvKeys
    /\ \E inFile \in {Missing, Unreadable} \cup {File(b) : b \in InputBytes},
          outFile \in {Missing, OldOutput} :
          /\ op = "extract" => outFile = Missing
          /\ fs0 = [q \in AllPaths |->
                      IF q = req.inputPath THEN inFile
                      ELSE IF q = EffectiveOutputPath(req) THEN outFile
                      ELSE Missing]
    /\ fs = fs0
    /\ pc = "ensureFileExists"
    /\ outputPath = NoPath
    /\ inlineImage = [data |-> <<>>, mimeType |-> ""]
    /\ apiKey = ""
    /\ entries = <<>>
    /\ translations = <<>>
    /\ outputBase64 = <<>>
    /\ calls = <<>>
    /\ completed = <<>>
    /\ received = NothingReceived
    /\ err = ""
    /\ result = [kind |-> "none", path |-> NoPath, rows |-> <<>>]
    /\ trace = <<>>

(***************************************************************************)
(* The steps.                                                              *)
(***************************************************************************)
\* ensureFileExists(request.inputPath): access() fails for a missing file.
EnsureFileExists ==
    /\ pc = "ensureFileExists"
    /\ IF fs[req.inputPath].kind = "missing"
       THEN Throw("InputNotFound") /\ UNCHANGED trace
       ELSE /\ pc' = Successor(op, "ensureFileExists")
            /\ Stage("InputChecked")
            /\ UNCHANGED err
    /\ UNCHANGED <<outerVars, constVars, fs, outputPath, inlineImage, apiKey,
                   entries, translations, outputBase64, calls, completed, result, received>>

\* Mutant: the catch block swallows every error, its own included.
OutputGuardSwallowsAll(path, force) == ""

\* Lines 302-303 with ensureOutputWritable(outputPath, request.force ?? false).
\* The outcome of the guard: "" to proceed, else the error thrown.
OutputGuard(path, force) ==
    IF force = "true" THEN ""
    ELSE IF fs[path].kind # "missing"
         THEN "OutputExists"     \* thrown in the try, caught, rethrown
    ELSE IF StatErrorMessageIncludesAlreadyExists(path)
         THEN "StatError"        \* the error of stat itself, rethrown
    ELSE ""

EnsureOutputWritable ==
    /\ pc = "ensureOutputWritable"
    /\ outputPath' = EffectiveOutputPath(req)
    /\ LET e == OutputGuard(EffectiveOutputPath(req), req.force)
       IN  IF e # ""
           THEN Throw(e) /\ UNCHANGED trace
           ELSE /\ pc' = Successor(op, "ensureOutputWritable")
                /\ Stage("OutputGuarded")
                /\ UNCHANGED err
    /\ UNCHANGED <<outerVars, constVars, fs, inlineImage, apiKey,
                   entries, translations, outputBase64, calls, completed, result, received>>

\* readInlineImage(request.inputPath)
ReadInlineImage ==
    /\ pc = "readInlineImage"
    /\ IF inferMimeType(req.inputPath) = ""
       THEN Throw("UnsupportedFormat") /\ UNCHANGED <<trace, inlineImage, received>>
       ELSE IF fs[req.inputPath].kind # "file"
       THEN Throw("ReadError") /\ UNCHANGED <<trace, inlineImage, received>>
       ELSE /\ inlineImage' = [data |-> Base64Encode(fs[req.inputPath].bytes),
                               mimeType |-> inferMimeType(req.inputPath)]
            /\ received' = [received EXCEPT !.input = fs[req.inputPath].bytes]
            /\ pc' = Successor(op, "readInlineImage")
            /\ Stage("ImageLoaded")
            /\ UNCHANGED err
    /\ UNCHANGED <<outerVars, constVars, fs, outputPath, apiKey,
                   entries, translations, outputBase64, calls, completed, result>>

\* resolveApiKey: explicitApiKey ?? process.env.GEMINI_API_KEY
resolveApiKey(explicitApiKey) ==
    IF explicitApiKey # "undefined" THEN explicitApiKey ELSE env

ResolveApiKey ==
    /\ pc = "resolveApiKey"
    /\ LET key == resolveApiKey(req.apiKey)
       IN  IF key = "undefined" \/ key = ""
           THEN Throw("MissingCredential") /\ UNCHANGED <<trace, apiKey>>
           ELSE /\ apiKey' = key
                /\ pc' = Successor(op, "resolveApiKey")
                /\ Stage("CredentialResolved")
                /\ UNCHANGED err
    /\ UNCHANGED <<outerVars, constVars, fs, outputPath, inlineImage,
                   entries, translations, outputBase64, calls, completed, result, received>>

\* extractTextEntries: the generateContent call is issued ...
ExtractSend ==
    /\ pc = "extractTextEntries"
    /\ calls' = Append(calls, "extract")
    /\ pc' = "extractTextEntries.await"
    /\ UNCHANGED <<outerVars, constVars, fs, outputPath, inlineImage, apiKey, entries,
                   translations, outputBase64, completed, err, result, trace, received>>

\* Mutant: an extraction call that raised is issued once more.
ExtractReceiveRetries ==
    /\ pc = "extractTextEntries.await"
    /\ completed' = Append(completed, "extract")
    /\ IF Len(calls) < 2
       THEN pc' = "extractTextEntries" /\ UNCHANGED err
       ELSE Throw("UpstreamServiceError")
    /\ UNCHANGED <<outerVars, constVars, fs, outputPath, inlineImage, apiKey, entries,
                   translations, outputBase64, calls, result, trace, received>>

\* ... and its response handled (lines 182-191), or the transport throws.
ExtractReceive ==
    /\ pc = "extractTextEntries.await"
    /\ completed' = Append(completed, "extract")
    /\ \/ Throw("UpstreamServiceError") /\ UNCHANGED <<entries, trace, received>>
       \/ \E text \in Offered(ExtractionTexts, PairExtractionTexts) :
             LET r == parseJsonArray(text)
             IN  /\ received' = [received EXCEPT !.extract = text]
                 /\ IF r.err # ""
                    THEN Throw(r.err) /\ UNCHANGED <<entries, trace>>
                    ELSE /\ entries' = ExtractedEntries(r.val.els)
                         /\ pc' = Successor(op, "extractTextEntries")
                         /\ Stage("Extracted")
                         /\ UNCHANGED err
    /\ UNCHANGED <<outerVars, constVars, fs, outputPath, inlineImage, apiKey,
                   translations, outputBase64, calls, result>>

\* translateEntries, line 200: no entries, no call.
TranslateSkip ==
    /\ pc = "translateEntries"
    /\ Len(entries) = 0
    /\ translations' = <<>>
    /\ pc' = Successor(op, "translateEntries")
    /\ Stage("Translated")
    /\ UNCHANGED <<outerVars, constVars, fs, outputPath, inlineImage, apiKey, entries,
                   outputBase64, calls, completed, err, result, received>>

TranslateSend ==
    /\ pc = "translateEntries"
    /\ Len(entries) # 0
    /\ calls' = Append(calls, "translate")
    /\ pc' = "translateEntries.await"
    /\ UNCHANGED <<outerVars, constVars, fs, outputPath, inlineImage, apiKey, entries,
                   translations, outputBase64, completed, err, result, trace, received>>

\* Lines 227-238.
TranslateReceive ==
    /\ pc = "translateEntries.await"
    /\ completed' = Append(completed, "translate")
    /\ \/ Throw("UpstreamServiceError") /\ UNCHANGED <<translations, trace, received>>
       \/ \E text \in Offered(TranslationTexts, PairTranslationTexts) :
             LET r == parseJsonArray(text)
             IN  /\ received' = [received EXCEPT !.translate = text]
                 /\ IF r.err # ""
                    THEN Throw(r.err) /\ UNCHANGED <<translations, trace>>
                    ELSE /\ translations' = MergeTranslations(entries, Rows(r.val.els))
                         /\ pc' = Successor(op, "translateEntries")
                         /\ Stage("Translated")
                         /\ UNCHANGED err
    /\ UNCHANGED <<outerVars, constVars, fs, outputPath, inlineImage, apiKey,
                   entries, outputBase64, calls, result>>

\* Lines 321-323: with no entries the input image is the output.
CopyInput ==
    /\ pc = "renderImage"
    /\ Len(entries) = 0
    /\ outputBase64' = inlineImage.data
    /\ pc' = Successor(op, "renderImage")
    /\ Stage("CopiedInput")
    /\ UNCHANGED <<outerVars, constVars, fs, outputPath, inlineImage, apiKey, entries,
                   translations, calls, completed, err, result, received>>

RenderSend ==
    /\ pc = "renderImage"
    /\ Len(entries) # 0
    /\ calls' = Append(calls, "render")
    /\ pc' = "renderImage.await"
    /\ UNCHANGED <<outerVars, constVars, fs, outputPath, inlineImage, apiKey, entries,
                   translations, outputBase64, completed, err, result, trace, received>>

\* Mutant: the last part that carries data is taken.
FindLastImageData(parts) ==
    IF \E i \in 1..Len(parts) : parts[i].data # <<>>
    THEN parts[CHOOSE i \in 1..Len(parts) :
                  /\ parts[i].data # <<>>
                  /\ \A j \in (i + 1)..Len(parts) : parts[j].data = <<>>].data
    ELSE <<>>

\* renderImage, lines 271-277: parts.find((part) => part.inlineData?.data),
\* "" when no part carries data.
FindImageData(parts) ==
    IF \E i \in 1..Len(parts) : parts[i].data # <<>>
    THEN parts[CHOOSE i \in 1..Len(parts) :
                  /\ parts[i].data # <<>>
                  /\ \A j \in 1..(i - 1) : parts[j].data = <<>>].data
    ELSE <<>>

\* Mutant: a response without an image falls back to the input image.
RenderReceiveFallsBack ==
    /\ pc = "renderImage.await"
    /\ completed' = Append(completed, "render")
    /\ \E parts \in RenderParts :
          /\ received' = [received EXCEPT !.render = parts]
          /\ outputBase64' = IF FindImageData(parts) = <<>> THEN inlineImage.data
                             ELSE FindImageData(parts)
          /\ pc' = Successor(op, "renderImage")
          /\ Stage("Rendered")
          /\ UNCHANGED err
    /\ UNCHANGED <<outerVars, constVars, fs, outputPath, inlineImage, apiKey,
                   entries, translations, calls, result>>

RenderReceive ==
    /\ pc = "renderImage.await"
    /\ completed' = Append(completed, "render")
    /\ \/ Throw("UpstreamServiceError") /\ UNCHANGED <<outputBase64, trace, received>>
       \/ \E parts \in Offered(RenderParts, PairRenderParts) :
             /\ received' = [received EXCEPT !.render = parts]
             /\ IF FindImageData(parts) = <<>>
                THEN Throw("MissingRenderedImage") /\ UNCHANGED <<outputBase64, trace>>
                ELSE /\ outputBase64' = FindImageData(parts)
                     /\ pc' = Successor(op, "renderImage")
                     /\ Stage("Rendered")
                     /\ UNCHANGED err
    /\ UNCHANGED <<outerVars, constVars, fs, outputPath, inlineImage, apiKey,
                   entries, translations, calls, result>>

\* Mutant: the input image is written whatever was rendered.
WriteFileInput ==
    /\ pc = "writeFile"
    /\ fs' = [fs EXCEPT ![outputPath] = File(Base64Decode(inlineImage.data))]
    /\ pc' = Successor(op, "writeFile")
    /\ Stage("Written")
    /\ UNCHANGED <<outerVars, constVars, outputPath, inlineImage, apiKey, entries,
                   translations, outputBase64, calls, completed, err, result, received>>

\* Line 333: writeFile(outputPath, Buffer.from(outputBase64, "base64"))
WriteFile ==
    /\ pc = "writeFile"
    /\ fs' = [fs EXCEPT ![outputPath] = File(Base64Decode(outputBase64))]
    /\ pc' = Successor(op, "writeFile")
    /\ Stage("Written")
    /\ UNCHANGED <<outerVars, constVars, outputPath, inlineImage, apiKey, entries,
                   translations, outputBase64, calls, completed, err, result, received>>

\* Lines 361-365: translations[index] ?? entry.text
ResultRows(ents, trans) ==
    [i \in 1..Len(ents) |->
        [sourceText |-> ents[i].text,
         sourceLanguage |-> ents[i].language,
         translatedText |-> IF i <= Len(trans) THEN trans[i] ELSE ents[i].text]]

Return ==
    /\ pc = "return"
    /\ result' = IF op = "recreate"
                 THEN [kind |-> "path", path |-> outputPath, rows |-> <<>>]
                 ELSE [kind |-> "rows", path |-> NoPath,
                       rows |-> ResultRows(entries, translations)]
    /\ pc' = "done"
    /\ Stage("Done")
    /\ UNCHANGED <<outerVars, constVars, fs, outputPath, inlineImage, apiKey, entries,
                   translations, outputBase64, calls, completed, err, received>>

Next ==
    \/ EnsureFileExists
    \/ EnsureOutputWritable
    \/ ReadInlineImage
    \/ ResolveApiKey
    \/ ExtractSend
    \/ ExtractReceive
    \/ TranslateSkip
    \/ TranslateSend
    \/ TranslateReceive
    \/ CopyInput
    \/ RenderSend
    \/ RenderReceive
    \/ WriteFile
    \/ Return

Spec == Init /\ [][Next]_vars

(***************************************************************************)
(* Specification of parseJsonArray as a pure function: every text of at    *)
(* most MaxLen tokens is an input, and one step applies the function.      *)
(***************************************************************************)
\* The other specifications leave the invocation idle.
PipelineIdle ==
    /\ op = "none"
    /\ req = [inputPath |-> NoPath, outputPath |-> NoPath, force |-> "undefined",
              apiKey |-> "undefined"]
    /\ env = "undefined"
    /\ fs0 = [q \in AllPaths |-> Missing]
    /\ fs = fs0
    /\ pc = "idle"
    /\ outputPath = NoPath
    /\ inlineImage = [data |-> <<>>, mimeType |-> ""]
    /\ apiKey = ""
    /\ entries = <<>>
    /\ translations = <<>>
    /\ outputBase64 = <<>>
    /\ calls = <<>>
    /\ completed = <<>>
    /\ received = NothingReceived
    /\ err = ""
    /\ result = [kind |-> "none", path |-> NoPath, rows |-> <<>>]
    /\ trace = <<>>

\* One text, one token sequence: a run of whitespace is one token, a word is
\* one token, and json is the language tag only right after a fence (anywhere
\* else it is a word of prose).
Canonical(text) ==
    \A i \in 1..Len(text) :
        /\ (i > 1 /\ text[i] = WS) => text[i - 1] # WS
        /\ (i > 1 /\ text[i] = Prose) => text[i - 1] # Prose
        /\ text[i] \in JsonTags => (i > 1 /\ text[i - 1] = FENCE)

RECURSIVE CanonicalTexts(_)
CanonicalTexts(n) ==
    IF n = 0 THEN {<<>>}
    ELSE LET shorter == CanonicalTexts(n - 1)
         IN  shorter \cup {text \in {Append(t, a) : t \in shorter, a \in Alphabet} :
                              Canonical(text)}

ParseInit ==
    /\ ptext \in CanonicalTexts(MaxLen)
    /\ presult = Thrown("pending")
    /\ pdone = FALSE
    /\ MergeIdle
    /\ PairIdle
    /\ CliIdle
    /\ PipelineIdle

ParseCall ==
    /\ ~pdone
    /\ presult' = parseJsonArray(ptext)
    /\ pdone' = TRUE
    /\ UNCHANGED <<ptext, mergeVars, pairVars, cliVars, pipeVars>>

ParseNext == ParseCall

SpecParse == ParseInit /\ [][ParseNext]_vars

MergeInit ==
    /\ tentries \in {EntriesOfLen(n) : n \in 1..MaxEntries}
    /\ titems \in SeqsUpTo(TranslationRows, MaxItems)
    /\ tresult = <<>>
    /\ tdone = FALSE
    /\ ParseIdle
    /\ PairIdle
    /\ CliIdle
    /\ PipelineIdle

MergeCall ==
    /\ ~tdone
    /\ tresult' = MergeTranslations(tentries, titems)
    /\ tdone' = TRUE
    /\ UNCHANGED <<tentries, titems, parseVars, pairVars, cliVars, pipeVars>>

MergeNext == MergeCall

SpecMerge == MergeInit /\ [][MergeNext]_vars

(***************************************************************************)
(* Two invocations in one event loop.  The invocation at hand runs on the  *)
(* variables of a single invocation; the other one is parked at an await   *)
(* with its locals saved.  The file system and the environment are the     *)
(* only things the two have in common.                                     *)
(***************************************************************************)
Locals ==
    [op |-> op, req |-> req, pc |-> pc, outputPath |-> outputPath,
     inlineImage |-> inlineImage, apiKey |-> apiKey, entries |-> entries,
     translations |-> translations, outputBase64 |-> outputBase64,
     calls |-> calls, completed |-> completed, received |-> received,
     err |-> err, result |-> result, trace |-> trace]

\* The statements at which an invocation is suspended: an awaited file
\* system operation or model call has not settled yet.
AwaitPoints ==
    {"ensureFileExists", "ensureOutputWritable", "readInlineImage",
     "extractTextEntries.await", "translateEntries.await", "renderImage.await",
     "writeFile", "done", "failed"}

PairInputPath == Path(<<"menu">>, ".png")
PairOutputs == {NoPath, Path(<<"out">>, ".png")}
PairRequests(o) ==
    IF o = "extract"
    THEN {[inputPath |-> PairInputPath, outputPath |-> NoPath, force |-> "undefined",
           apiKey |-> "undefined"]}
    ELSE {[inputPath |-> PairInputPath, outputPath |-> out, force |-> force,
           apiKey |-> "undefined"] : out \in PairOutputs, force \in {"undefined", "true"}}

PairInit ==
    /\ ParseIdle
    /\ MergeIdle
    /\ CliIdle
    /\ active = 1
    /\ op \in {"recreate", "extract"}
    /\ req \in PairRequests(op)
    /\ \E o2 \in {"recreate", "extract"} : \E r2 \in PairRequests(o2) :
          parked = [NoRun EXCEPT !.op = o2, !.req = r2, !.pc = "ensureFileExists"]
    /\ env = "env-key"
    /\ \E outFile \in {Missing, OldOutput}, defaultFile \in {Missing, OldOutput} :
          fs0 = [q \in AllPaths |->
                    IF q = PairInputPath THEN File(<<77, 97>>)
                    ELSE IF q = Path(<<"out">>, ".png") THEN outFile
                    ELSE IF q = defaultOutputPath(PairInputPath) THEN defaultFile
                    ELSE Missing]
    /\ fs = fs0
    /\ pc = "ensureFileExists"
    /\ outputPath = NoPath
    /\ inlineImage = [data |-> <<>>, mimeType |-> ""]
    /\ apiKey = ""
    /\ entries = <<>>
    /\ translations = <<>>
    /\ outputBase64 = <<>>
    /\ calls = <<>>
    /\ completed = <<>>
    /\ received = NothingReceived
    /\ err = ""
    /\ result = [kind |-> "none", path |-> NoPath, rows |-> <<>>]
    /\ trace = <<>>

\* The event loop resumes the other invocation while this one is suspended.
Switch ==
    /\ active # 0
    /\ pc \in AwaitPoints
    /\ parked.pc \notin {"done", "failed"}
    /\ active' = 3 - active
    /\ parked' = Locals
    /\ op' = parked.op
    /\ req' = parked.req
    /\ pc' = parked.pc
    /\ outputPath' = parked.outputPath
    /\ inlineImage' = parked.inlineImage
    /\ apiKey' = parked.apiKey
    /\ entries' = parked.entries
    /\ translations' = parked.translations
    /\ outputBase64' = parked.outputBase64
    /\ calls' = parked.calls
    /\ completed' = parked.completed
    /\ received' = parked.received
    /\ err' = parked.err
    /\ result' = parked.result
    /\ trace' = parked.trace
    /\ UNCHANGED <<parseVars, mergeVars, cliVars, env, fs0, fs>>

PairNext ==
    \/ Next
    \/ Switch

SpecPair == PairInit /\ [][PairNext]_vars

(***************************************************************************)
(* runCommand (cli.js) with the handlers of the pipeline.                  *)
(***************************************************************************)
CliOutputs == {NoPath, Path(<<"out">>, ".png")}      \* options.output
CliInputExts == {".png", ".gif"}

CliInit ==
    /\ ParseIdle
    /\ MergeIdle
    /\ PairIdle
    /\ cliInputPath \in {Path(<<"menu">>, e) : e \in CliInputExts}
    /\ options \in [extract : BOOLEAN, force : {"false", "true"}, output : CliOutputs,
                     apiKey : {"undefined", "cli-key"}]
    /\ cliPc = "runCommand"
    /\ handlerCalls = <<>>
    /\ stdout = <<>>
    /\ op = "none"
    /\ req = NoRun.req
    /\ env \in {"undefined", "env-key"}
    /\ \E inFile \in {Missing, File(<<77, 97>>)}, outFile \in {Missing, OldOutput} :
          fs0 = [q \in AllPaths |->
                    IF q = cliInputPath THEN inFile
                    ELSE IF q = Path(<<"out">>, ".png") \/ q = defaultOutputPath(cliInputPath)
                         THEN outFile
                    ELSE Missing]
    /\ fs = fs0
    /\ pc = "idle"
    /\ outputPath = NoPath
    /\ inlineImage = [data |-> <<>>, mimeType |-> ""]
    /\ apiKey = ""
    /\ entries = <<>>
    /\ translations = <<>>
    /\ outputBase64 = <<>>
    /\ calls = <<>>
    /\ completed = <<>>
    /\ received = NothingReceived
    /\ err = ""
    /\ result = [kind |-> "none", path |-> NoPath, rows |-> <<>>]
    /\ trace = <<>>

\* The request runCommand builds for each handler.
ExtractRequest ==
    [inputPath |-> cliInputPath, outputPath |-> NoPath, force |-> "undefined",
     apiKey |-> options.apiKey]
RecreateRequest ==
    [inputPath |-> cliInputPath, outputPath |-> options.output, force |-> options.force,
     apiKey |-> options.apiKey]

\* Mutant: the recreate request is built without the force option.
RunCommandCallDropsForce ==
    /\ cliPc = "runCommand"
    /\ op' = IF options.extract THEN "extract" ELSE "recreate"
    /\ req' = IF options.extract THEN ExtractRequest
              ELSE [RecreateRequest EXCEPT !.force = "undefined"]
    /\ handlerCalls' = Append(handlerCalls,
                              [name |-> IF options.extract THEN "extractAndTranslateText"
                                        ELSE "recreateImageWithTranslatedText",
                               request |-> req'])
    /\ pc' = "ensureFileExists"
    /\ cliPc' = "await"
    /\ UNCHANGED <<parseVars, mergeVars, pairVars, cliInputPath, options, stdout,
                   env, fs0, fs, outputPath, inlineImage, apiKey, entries, translations,
                   outputBase64, calls, completed, received, err, result, trace>>

\* runCommand up to its await: the handler the extract option selects is
\* called with the request built from the options.
RunCommandCall ==
    /\ cliPc = "runCommand"
    /\ op' = IF options.extract THEN "extract" ELSE "recreate"
    /\ req' = IF options.extract THEN ExtractRequest ELSE RecreateRequest
    /\ handlerCalls' = Append(handlerCalls,
                              [name |-> IF options.extract THEN "extractAndTranslateText"
                                        ELSE "recreateImageWithTranslatedText",
                               request |-> req'])
    /\ pc' = "ensureFileExists"
    /\ cliPc' = "await"
    /\ UNCHANGED <<parseVars, mergeVars, pairVars, cliInputPath, options, stdout,
                   env, fs0, fs, outputPath, inlineImage, apiKey, entries, translations,
                   outputBase64, calls, completed, received, err, result, trace>>

\* JSON.stringify(rows, null, 2): a property whose value is undefined is
\* left out of the text.
JSONstringifyRow(row) ==
    IF row.sourceLanguage = Undefined
    THEN [sourceText |-> row.sourceText, translatedText |-> row.translatedText]
    ELSE [sourceText |-> row.sourceText, sourceLanguage |-> row.sourceLanguage.s,
          translatedText |-> row.translatedText]
JSONstringify(rows) == [i \in 1..Len(rows) |-> JSONstringifyRow(rows[i])]

\* The handler has returned: console.log of the rows or of the output path.
RunCommandPrint ==
    /\ cliPc = "await"
    /\ pc = "done"
    /\ stdout' = Append(stdout, IF options.extract
                                THEN [json |-> JSONstringify(result.rows)]
                                ELSE [line |-> result.path])
    /\ cliPc' = "returned"
    /\ UNCHANGED <<parseVars, mergeVars, pairVars, cliInputPath, options, handlerCalls,
                   pipeVars>>

\* The handler has thrown: runCommand catches nothing and rejects.
RunCommandReject ==
    /\ cliPc = "await"
    /\ pc = "failed"
    /\ cliPc' = "rejected"
    /\ UNCHANGED <<parseVars, mergeVars, pairVars, cliInputPath, options, handlerCalls,
                   stdout, pipeVars>>

CliNext ==
    \/ RunCommandCall
    \/ Next
    \/ RunCommandPrint
    \/ RunCommandReject

SpecCli == CliInit /\ [][CliNext]_vars

(***************************************************************************)
(* Vocabulary of the properties.                                           *)
(***************************************************************************)
Has(seq, x) == \E i \in 1..Len(seq) : seq[i] = x
Count(seq, x) == Cardinality({i \in 1..Len(seq) : seq[i] = x})
IsPrefix(a, b) == Len(a) <= Len(b) /\ \A i \in 1..Len(a) : a[i] = b[i]
Last(seq) == seq[Len(seq)]
Without(seq, x) == SelectSeq(seq, LAMBDA y : y # x)

InputExisted == fs0[req.inputPath].kind # "missing"
OutputExisted == fs0[EffectiveOutputPath(req)].kind # "missing"

\* The raw items of the responses received, and the raw extraction items
\* that survive: text is a string that is not empty after trimming.
RawExtraction == parseJsonArray(received.extract).val.els
RawTranslation == parseJsonArray(received.translate).val.els
Survives(item) ==
    /\ item.t = "atom"
    /\ item.a \in ObjTokens
    /\ Obj(item.a).text.ty = "string"
    /\ \E i \in 1..Len(Obj(item.a).text.s) : Obj(item.a).text.s[i] # WS
Survivors == {i \in 1..Len(RawExtraction) : Survives(RawExtraction[i])}
\* The raw position of the k-th survivor.
Survivor(k) ==
    CHOOSE i \in Survivors : Cardinality({j \in Survivors : j <= i}) = k

\* The bytes a successful recreate is to leave in the output file.
NewOutputBytes(parts) ==
    IF Survivors = {} THEN received.input ELSE Base64Decode(FindImageData(parts))

\* The two invocations of SpecPair.
Run(i) == IF active = i THEN Locals ELSE parked

\* The validation failure the precedence InputNotFound, OutputExists,
\* UnsupportedFormat, read failure, MissingCredential selects for operation o
\* called with request r on the file system disk; "" when none holds.
NoCredential(r) == resolveApiKey(r.apiKey) \in {"undefined", ""}

FirstFailure(o, r, disk) ==
    IF disk[r.inputPath].kind = "missing" THEN "InputNotFound"
    ELSE IF o = "recreate" /\ r.force # "true"
            /\ disk[EffectiveOutputPath(r)].kind # "missing" THEN "OutputExists"
    ELSE IF ToLowerCase(r.inputPath.ext) \notin SUPPORTED_EXTENSIONS
         THEN "UnsupportedFormat"
    ELSE IF disk[r.inputPath].kind # "file" THEN "ReadError"
    ELSE IF NoCredential(r) THEN "MissingCredential"
    ELSE ""

(***************************************************************************)
(* C1.  recreateImageWithTranslatedText on an input that exists: when the  *)
(* overwrite flag is absent or false and a file exists at the effective    *)
(* output path, the call fails with OutputExists, has made no upstream     *)
(* call and has left every file as it was; when the flag is true the guard *)
(* never raises OutputExists, the run goes on, and on return the output    *)
(* file holds the new output bytes.                                        *)
(***************************************************************************)
C1_OutputExistsUnlessForced ==
    (op = "recreate" /\ InputExisted) =>
        /\ (req.force # "true" /\ OutputExisted) =>
              /\ pc \in {"ensureFileExists", "ensureOutputWritable", "failed"}
              /\ pc = "failed" => err = "OutputExists"
              /\ calls = <<>>
              /\ fs = fs0
        /\ req.force = "true" =>
              /\ err # "OutputExists"
              /\ pc = "done" =>
                    /\ Has(trace, "OutputGuarded")
                    /\ fs[EffectiveOutputPath(req)] = File(NewOutputBytes(received.render))

C1_Witness ==
    /\ op = "recreate"
    /\ req.force = "undefined"
    /\ req.outputPath = NoPath
    /\ OutputExisted
    /\ pc = "failed"
    /\ err = "OutputExists"
    /\ fs[EffectiveOutputPath(req)] = OldOutput

(***************************************************************************)
(* C2.  A step that fails ends the run, and a run that failed has written  *)
(* nothing; the output is written only once extraction and translation     *)
(* have completed and either rendering returned image data or extraction   *)
(* yielded no entry.                                                       *)
(***************************************************************************)
C2_NoWriteUnlessAllStagesDone ==
    [][ /\ pc # "failed"
        /\ err' # "" => (pc' = "failed" /\ fs' = fs0)
        /\ (fs' # fs \/ Count(trace', "Written") > Count(trace, "Written")) =>
              /\ err' = ""
              /\ Has(completed, "extract")
              /\ Has(trace, "Extracted")
              /\ Has(trace, "Translated")
              /\ \/ Survivors = {}
                 \/ /\ Has(completed, "translate")
                    /\ Has(completed, "render")
                    /\ \E i \in 1..Len(received.render) : received.render[i].data # <<>>
      ]_vars

C2_Witness ==
    /\ op = "recreate"
    /\ pc = "failed"
    /\ err = "MissingRenderedImage"
    /\ Len(completed) = 3
    /\ fs = fs0

(***************************************************************************)
(* C3.  A validation error is raised only while no upstream call has been  *)
(* made; MalformedModelOutput is raised only when the extraction or the    *)
(* translation call has completed, MissingRenderedImage only when the      *)
(* render call has completed.                                              *)
(***************************************************************************)
ValidationErrors == {"InputNotFound", "UnsupportedFormat", "OutputExists", "MissingCredential"}

C3_ValidationBeforeCalls ==
    /\ err \in ValidationErrors => calls = <<>>
    /\ err = "MalformedModelOutput" =>
          /\ completed # <<>>
          /\ completed = calls
          /\ Last(completed) \in {"extract", "translate"}
    /\ err = "MissingRenderedImage" =>
          /\ completed # <<>>
          /\ completed = calls
          /\ Last(completed) = "render"

C3_Witness ==
    /\ err = "MalformedModelOutput"
    /\ Last(completed) = "translate"
    /\ received.translate = <<Prose>>

(***************************************************************************)
(* C4.  When the extraction response has no surviving entry, recreate      *)
(* makes the extraction call and no other, writes to the output path the   *)
(* bytes it read from the input file, and returns the output path.         *)
(***************************************************************************)
C4_EmptyExtractionCopiesInput ==
    (op = "recreate" /\ Has(trace, "Extracted") /\ Survivors = {}) =>
        /\ calls = <<"extract">>
        /\ pc # "failed"
        /\ received.input = fs0[req.inputPath].bytes
        /\ pc = "done" =>
              /\ fs[EffectiveOutputPath(req)] = File(received.input)
              /\ result.kind = "path"
              /\ result.path = EffectiveOutputPath(req)

C4_Witness ==
    /\ op = "recreate"
    /\ pc = "done"
    /\ Len(RawExtraction) = 3
    /\ Survivors = {}
    /\ received.input = <<77, 97>>
    /\ fs[EffectiveOutputPath(req)] = File(<<77, 97>>)

(***************************************************************************)
(* C5.  The upstream calls are issued in the order extract, translate,     *)
(* render, each only after the one before has completed; a recreate that   *)
(* returns with at least one entry has made exactly these three calls and  *)
(* the output file holds the decoded inline data of the render response.   *)
(***************************************************************************)
C5_ThreeCallsThenRenderedBytes ==
    /\ IsPrefix(calls, <<"extract", "translate", "render">>)
    /\ IsPrefix(completed, calls)
    /\ Len(calls) <= Len(completed) + 1
    /\ (op = "recreate" /\ pc = "done" /\ Survivors # {}) =>
          /\ calls = <<"extract", "translate", "render">>
          /\ completed = calls
          /\ \E i \in 1..Len(received.render) :
                /\ received.render[i].data # <<>>
                /\ fs[EffectiveOutputPath(req)] =
                      File(Base64Decode(received.render[i].data))

C5_Witness ==
    /\ op = "recreate"
    /\ pc = "done"
    /\ Cardinality(Survivors) = 2
    /\ Len(calls) = 3
    /\ fs[EffectiveOutputPath(req)] = File(RenderedA)

(***************************************************************************)
(* C6.  The merge of translateEntries returns a list as long as the        *)
(* entries; the items whose index is not a number or is outside            *)
(* [0, entries.length) change nothing; each position i holds a non-empty   *)
(* translation of an item addressed to index i, or entries[i].text.        *)
(***************************************************************************)
InRangeNumber(row) ==
    /\ row.index.ty = "number"
    /\ row.index.n2 >= 0
    /\ row.index.n2 < 2 * Len(tentries)

C6_MergeKeepsLengthAndFallsBack ==
    tdone =>
        /\ Len(tresult) = Len(tentries)
        /\ tresult = MergeTranslations(tentries, SelectSeq(titems, InRangeNumber))
        /\ \A i \in 1..Len(tentries) :
              \/ tresult[i] = tentries[i].text
              \/ \E j \in 1..Len(titems) :
                    /\ titems[j].index = JsNum(i - 1)
                    /\ titems[j].translation.ty = "string"
                    /\ titems[j].translation.s # <<>>
                    /\ tresult[i] = titems[j].translation.s

C6_Witness ==
    /\ tdone
    /\ Len(tentries) = 2
    /\ Len(titems) = 2
    /\ titems[1].index = JsNum(-1)
    /\ titems[1].translation = JsStr(<<"bye">>)
    /\ titems[2].index = JsNum(0)
    /\ titems[2].translation = JsStr(<<"hello">>)
    /\ tresult = << <<"hello">>, <<"dos">> >>

(***************************************************************************)
(* C7.  extractAndTranslateText returns one row per surviving raw item, in *)
(* the order of the extraction response; row k carries the trimmed text    *)
(* and the language of the k-th survivor and the translation addressed to  *)
(* index k - 1 counted over the survivors (the source text when the item   *)
(* last addressed to that index has no non-empty string translation); it   *)
(* has made two upstream calls when an entry survives and one when none    *)
(* does, and then returns no row.                                          *)
(***************************************************************************)
AddressedTo(k) ==
    {j \in 1..Len(RawTranslation) : Row(RawTranslation[j]).index = JsNum(k)}

AddressedTranslation(k, sourceText) ==
    IF AddressedTo(k) = {} THEN sourceText
    ELSE LET j == CHOOSE x \in AddressedTo(k) : \A y \in AddressedTo(k) : y <= x
             t == Row(RawTranslation[j]).translation
         IN  IF t.ty = "string" /\ t.s # <<>> THEN t.s ELSE sourceText

C7_OneRowPerSurvivor ==
    op = "extract" =>
        /\ Len(calls) <= 2
        /\ pc = "done" =>
              /\ result.kind = "rows"
              /\ Len(result.rows) = Cardinality(Survivors)
              /\ calls = IF Survivors = {} THEN <<"extract">>
                         ELSE <<"extract", "translate">>
              /\ \A k \in 1..Len(result.rows) :
                    LET item == Obj(RawExtraction[Survivor(k)].a)
                        row == result.rows[k]
                    IN  /\ row.sourceText = Trim(item.text.s)
                        /\ row.sourceLanguage =
                              IF item.language.ty = "string" THEN item.language
                              ELSE Undefined
                        /\ row.translatedText =
                              AddressedTranslation(k - 1, Trim(item.text.s))

C7_Witness ==
    /\ op = "extract"
    /\ pc = "done"
    /\ Len(RawExtraction) = 3
    /\ Survivors = {2, 3}
    /\ Len(result.rows) = 2
    /\ result.rows[1].sourceText = <<"hola">>
    /\ result.rows[1].translatedText = <<"hello">>
    /\ result.rows[2].translatedText = <<"bye">>

(***************************************************************************)
(* C8.  When no JSON array can be recovered from the text (the unfenced    *)
(* text is no JSON array, and its span from the first "[" to the last "]"  *)
(* is absent or no JSON array), parseJsonArray throws the                  *)
(* MalformedModelOutput error.                                             *)
(***************************************************************************)
IsJsonArray(toks) == JSONparse(toks).ok /\ ArrayIsArray(JSONparse(toks).val)

SpanPresent(toks) == IndexOf(toks, LB) # 0 /\ LastIndexOf(toks, RB) > IndexOf(toks, LB)

NoRecoverableArray(text) ==
    LET u == Unfence(text)
    IN  /\ ~IsJsonArray(u)
        /\ ~(SpanPresent(u) /\ IsJsonArray(SubSeq(u, IndexOf(u, LB), LastIndexOf(u, RB))))

C8_MalformedWhenNoArray ==
    (pdone /\ NoRecoverableArray(ptext)) => presult.err = "MalformedModelOutput"

(***************************************************************************)
(* C9.  A JSON array A inside the text, between a prefix and a suffix.     *)
(* As claimed: parseJsonArray returns A when A is bare, fenced, or         *)
(* surrounded by prose.  As amended: it returns A whenever the prefix has  *)
(* no "[" and the suffix has no "]".                                       *)
(***************************************************************************)
Before(i) == SubSeq(ptext, 1, i - 1)
After(j) == SubSeq(ptext, j + 1, Len(ptext))
ArrayAt(i, j) ==
    /\ ptext[i] = LB
    /\ ptext[j] = RB
    /\ JSONparse(SubSeq(ptext, i, j)).ok

OnlyWs(s) == \A k \in 1..Len(s) : s[k] = WS

RECURSIVE Balanced(_, _)
Balanced(s, depth) ==
    IF s = <<>> THEN depth = 0
    ELSE IF Head(s) = LB THEN Balanced(Tail(s), depth + 1)
    ELSE IF Head(s) = RB THEN depth > 0 /\ Balanced(Tail(s), depth - 1)
    ELSE Balanced(Tail(s), depth)

\* Prose: words, whitespace and bracketed asides, holding no JSON array.
IsProse(s) ==
    /\ \A k \in 1..Len(s) : s[k] \in {Prose, WS, LB, RB}
    /\ Balanced(s, 0)
    /\ \A a \in 1..Len(s) : \A b \in a..Len(s) :
          ~(s[a] = LB /\ s[b] = RB /\ JSONparse(SubSeq(s, a, b)).ok)

IsOpenFence(s) ==
    \/ Len(s) >= 1 /\ s[1] = FENCE /\ OnlyWs(Tail(s))
    \/ Len(s) >= 2 /\ s[1] = FENCE /\ s[2] \in JsonTags /\ OnlyWs(Tail(Tail(s)))

IsCloseFence(s) ==
    Len(s) >= 1 /\ s[Len(s)] = FENCE /\ OnlyWs(SubSeq(s, 1, Len(s) - 1))

ClaimedShape(pre, post) ==
    \/ OnlyWs(pre) /\ OnlyWs(post)
    \/ IsOpenFence(pre) /\ IsCloseFence(post)
    \/ IsProse(pre) /\ IsProse(post)

C9_AsClaimed ==
    pdone =>
        \A i \in 1..Len(ptext) : \A j \in i..Len(ptext) :
            (ArrayAt(i, j) /\ ClaimedShape(Before(i), After(j))) =>
                presult = Returned(JSONparse(SubSeq(ptext, i, j)).val)

C9_ReturnsArrayWhenNoStrayBracket ==
    pdone =>
        \A i \in 1..Len(ptext) : \A j \in i..Len(ptext) :
            (ArrayAt(i, j) /\ ~Has(Before(i), LB) /\ ~Has(After(j), RB)) =>
                presult = Returned(JSONparse(SubSeq(ptext, i, j)).val)

C9_Witness ==
    /\ pdone
    /\ ptext = <<Prose, LB, NumberTok, RB, Prose>>
    /\ presult = Returned(Arr(<<Atom(NumberTok)>>))

(***************************************************************************)
(* C10.  The stages an invocation completes, in order.  As claimed, the    *)
(* credential is resolved before the image is loaded; as amended, the      *)
(* image is loaded (mime type inferred, file read) before the credential   *)
(* is resolved, and recreate guards the output path right after the input  *)
(* check.                                                                  *)
(***************************************************************************)
ClaimedStages(o, last) ==
    IF o = "recreate"
    THEN <<"InputChecked", "CredentialResolved", "ImageLoaded", "Extracted",
           "Translated", last, "Written", "Done">>
    ELSE <<"InputChecked", "CredentialResolved", "ImageLoaded", "Extracted",
           "Translated", "Done">>

CodeStages(o, last) ==
    IF o = "recreate"
    THEN <<"InputChecked", "OutputGuarded", "ImageLoaded", "CredentialResolved",
           "Extracted", "Translated", last, "Written", "Done">>
    ELSE <<"InputChecked", "ImageLoaded", "CredentialResolved", "Extracted",
           "Translated", "Done">>

C10_AsClaimed ==
    \E last \in {"Rendered", "CopiedInput"} :
        IsPrefix(Without(trace, "OutputGuarded"), ClaimedStages(op, last))

C10_StagesInCodeOrder ==
    /\ \E last \in {"Rendered", "CopiedInput"} : IsPrefix(trace, CodeStages(op, last))
    /\ Has(trace, "CopiedInput") => Survivors = {}
    /\ Has(trace, "Rendered") => Survivors # {}
    /\ pc = "done" <=> Has(trace, "Done")

C10_Witness ==
    /\ op = "recreate"
    /\ pc = "done"
    /\ trace = CodeStages("recreate", "Rendered")

(***************************************************************************)
(* C11.  Two invocations interleaved at their awaits.  As claimed: each    *)
(* invocation fails validation exactly as it would have alone on the file  *)
(* system it was called on, reads the input bytes that were there, writes  *)
(* the bytes its own responses determine, and no step replaces a file that *)
(* exists unless the invocation taking the step set the overwrite flag.    *)
(***************************************************************************)
AsIfAlone(r) ==
    LET alone == FirstFailure(r.op, r.req, fs0)
    IN  /\ alone # "" => (r.calls = <<>> /\ r.pc # "done")
        /\ (r.pc = "failed" /\ r.calls = <<>>) => r.err = alone
        /\ Has(r.trace, "ImageLoaded") => r.received.input = fs0[r.req.inputPath].bytes

NoUnforcedOverwrite ==
    \A q \in AllPaths :
        fs'[q] # fs[q] =>
            /\ q = EffectiveOutputPath(req)
            /\ fs'[q] = File(NewOutputBytes(received.render))
            /\ fs[q].kind # "missing" => req.force = "true"

C11_AsClaimed ==
    /\ [](\A i \in {1, 2} : AsIfAlone(Run(i)))
    /\ [][NoUnforcedOverwrite]_vars

(***************************************************************************)
(* C12.  The credential.  As claimed: the key given to the model client is *)
(* the explicit key when there is one and the environment value otherwise; *)
(* with neither, the operation fails with MissingCredential once the       *)
(* earlier validations have passed, with no upstream call made and no file *)
(* written; and MissingCredential is raised in no other case.              *)
(***************************************************************************)
KeyAvailable(k) == k \notin {"undefined", ""}

C12_AsClaimed ==
    LET neither == ~KeyAvailable(req.apiKey) /\ ~KeyAvailable(env)
    IN  /\ Has(trace, "CredentialResolved") =>
              apiKey = IF KeyAvailable(req.apiKey) THEN req.apiKey ELSE env
        /\ (neither /\ Has(trace, "ImageLoaded") /\ pc # "resolveApiKey") =>
              /\ pc = "failed"
              /\ err = "MissingCredential"
        /\ err = "MissingCredential" =>
              /\ neither
              /\ calls = <<>>
              /\ fs = fs0

(***************************************************************************)
(* C13.  No retry: an invocation issues each of the extraction,            *)
(* translation and render calls at most once (at most two calls for        *)
(* extract-only); the step in which a call raises, or its response cannot  *)
(* be used, ends the invocation with that error and no further call, and   *)
(* a failed invocation issues no call and keeps its error.                 *)
(***************************************************************************)
\* The error the handling of the response to call c raises, "" when none.
ResponseError(c, rcv) ==
    IF c = "render"
    THEN IF FindImageData(rcv.render) = <<>> THEN "MissingRenderedImage" ELSE ""
    ELSE IF c = "translate" THEN parseJsonArray(rcv.translate).err
    ELSE parseJsonArray(rcv.extract).err

C13_NoRetry ==
    [][ /\ \A c \in {"extract", "translate", "render"} : Count(calls', c) <= 1
        /\ Len(calls') <= IF op' = "extract" THEN 2 ELSE 3
        /\ (Len(completed') > Len(completed) /\ err' # "") =>
              /\ pc' = "failed"
              /\ calls' = calls
              /\ completed' = calls
              /\ err' \in {"UpstreamServiceError",
                            ResponseError(Last(completed'), received')}
        /\ (Len(completed') > Len(completed) /\ err' = "") =>
              ResponseError(Last(completed'), received') = ""
        /\ pc = "failed" => (calls' = calls /\ err' = err)
      ]_vars

C13_Witness ==
    /\ op = "recreate"
    /\ pc = "failed"
    /\ err = "UpstreamServiceError"
    /\ calls = <<"extract", "translate">>
    /\ completed = calls

(***************************************************************************)
(* C14.  Once the render call has returned a response: when some part      *)
(* carries inline data, renderImage returns the data of the first such     *)
(* part and a recreate that returns has written its decoded bytes; when    *)
(* no part does (no candidates, no parts, only parts without data), the    *)
(* invocation has failed with MissingRenderedImage, the render call was    *)
(* made once, and no file has been written.                                *)
(***************************************************************************)
PartsWithData(parts) == {i \in 1..Len(parts) : parts[i].data # <<>>}

C14_FirstImagePartOrMissing ==
    (Has(completed, "render") /\ err # "UpstreamServiceError") =>
        LET parts == received.render
            first == CHOOSE i \in PartsWithData(parts) :
                        \A j \in PartsWithData(parts) : i <= j
        IN  IF PartsWithData(parts) = {}
            THEN /\ pc = "failed"
                 /\ err = "MissingRenderedImage"
                 /\ Count(calls, "render") = 1
                 /\ ~Has(trace, "Written")
                 /\ fs = fs0
            ELSE /\ err = ""
                 /\ outputBase64 = parts[first].data
                 /\ pc = "done" =>
                       fs[EffectiveOutputPath(req)] = File(Base64Decode(parts[first].data))

C14_Witness ==
    /\ op = "recreate"
    /\ pc = "failed"
    /\ err = "MissingRenderedImage"
    /\ received.render = <<TextPart>>
    /\ calls = <<"extract", "translate", "render">>
    /\ fs = fs0

(***************************************************************************)
(* C15.  runCommand calls one handler, once.  With the extract option it   *)
(* is extractAndTranslateText: the output guard and the write are never    *)
(* reached, no file changes, and what is printed on return is the JSON     *)
(* text of the rows, once.  Without it, it is                              *)
(* recreateImageWithTranslatedText, called with options.output and         *)
(* options.force, and what is printed on return is the output path the     *)
(* handler returned and nothing else.  Nothing is printed before the       *)
(* handler returns, nor when it throws.                                    *)
(***************************************************************************)
C15_OneHandlerPerInvocation ==
    /\ Len(handlerCalls) = IF cliPc = "runCommand" THEN 0 ELSE 1
    /\ stdout # <<>> <=> cliPc = "returned"
    /\ cliPc # "runCommand" =>
          IF options.extract
          THEN /\ handlerCalls[1].name = "extractAndTranslateText"
               /\ handlerCalls[1].request.inputPath = cliInputPath
               /\ op = "extract"
               /\ ~Has(trace, "OutputGuarded")
               /\ ~Has(trace, "Written")
               /\ ~Has(calls, "render")
               /\ fs = fs0
               /\ cliPc = "returned" =>
                     /\ pc = "done"
                     /\ stdout = << [json |-> JSONstringify(result.rows)] >>
                     /\ Len(stdout[1].json) = Cardinality(Survivors)
          ELSE /\ handlerCalls[1].name = "recreateImageWithTranslatedText"
               /\ handlerCalls[1].request.inputPath = cliInputPath
               /\ handlerCalls[1].request.outputPath = options.output
               /\ handlerCalls[1].request.force = options.force
               /\ op = "recreate"
               /\ req = handlerCalls[1].request
               /\ (options.force = "false" /\ OutputExisted) => fs = fs0
               /\ cliPc = "returned" =>
                     /\ pc = "done"
                     /\ stdout = << [line |-> EffectiveOutputPath(req)] >>
                     /\ Has(trace, "Written")

C15_Witness ==
    /\ cliPc = "returned"
    /\ options.extract
    /\ options.force = "true"
    /\ options.output = Path(<<"out">>, ".png")
    /\ fs0[options.output] = OldOutput
    /\ fs = fs0
    /\ Len(stdout) = 1
    /\ Len(stdout[1].json) = 2

(***************************************************************************)
(* C16.  Precedence of the validation failures.  As claimed: when two or   *)
(* more of them hold on the file system the operation was called on, the   *)
(* invocation makes no upstream call, does not return, and the error it    *)
(* fails with is the first that holds in the order InputNotFound,          *)
(* OutputExists (recreate without the overwrite flag), UnsupportedFormat,  *)
(* read failure, MissingCredential.                                        *)
(***************************************************************************)
FailuresHolding(o, r, disk) ==
    {f \in {"InputNotFound", "OutputExists", "UnsupportedFormat", "ReadError",
             "MissingCredential"} :
        \/ f = "InputNotFound" /\ disk[r.inputPath].kind = "missing"
        \/ f = "OutputExists" /\ o = "recreate" /\ r.force # "true"
              /\ disk[EffectiveOutputPath(r)].kind # "missing"
        \/ f = "UnsupportedFormat"
              /\ ToLowerCase(r.inputPath.ext) \notin SUPPORTED_EXTENSIONS
        \/ f = "ReadError" /\ disk[r.inputPath].kind = "unreadable"
        \/ f = "MissingCredential" /\ NoCredential(r)}

C16_AsClaimed ==
    Cardinality(FailuresHolding(op, req, fs0)) >= 2 =>
        /\ calls = <<>>
        /\ pc # "done"
        /\ pc = "failed" => err = FirstFailure(op, req, fs0)

(***************************************************************************)
(* C17.  Every row extractAndTranslateText returns has a non-empty         *)
(* sourceText and a non-empty translatedText; when no response item is     *)
(* addressed to the row's index, or the last one addressed to it has a     *)
(* translation that is not a string or is the empty string (whatever an    *)
(* earlier item for the same index said), translatedText is the row's      *)
(* sourceText.                                                             *)
(***************************************************************************)
LastAddressedTo(k) == CHOOSE x \in AddressedTo(k) : \A y \in AddressedTo(k) : y <= x

NoUsableTranslation(k) ==
    \/ AddressedTo(k) = {}
    \/ LET t == Row(RawTranslation[LastAddressedTo(k)]).translation
       IN  t.ty # "string" \/ t.s = <<>>

C17_RowsNeverEmpty ==
    (op = "extract" /\ pc = "done") =>
        \A k \in 1..Len(result.rows) :
            /\ result.rows[k].sourceText # <<>>
            /\ result.rows[k].translatedText # <<>>
            /\ NoUsableTranslation(k - 1) =>
                  result.rows[k].translatedText = result.rows[k].sourceText

C17_Witness ==
    /\ op = "extract"
    /\ pc = "done"
    /\ received.translate = <<LB, "t0_hello", COMMA, "t0_null", RB>>
    /\ Len(result.rows) = 2
    /\ result.rows[1].sourceText = <<"hola">>
    /\ result.rows[1].translatedText = <<"hola">>

====
